---------------------------- MODULE Spec2Model ----------------------------
(***************************************************************************)
(* A model of manticore's AArch64 CPU plumbing                             *)
(* (manticore/native/cpu/aarch64.py): the register file with its           *)
(* parent/alias table, the CPU's pickling hooks, the calling-convention    *)
(* and syscall ABIs, and instruction-name canonicalization.                *)
(*                                                                         *)
(* Python integers are unbounded, and the registers are 64 and 128 bits    *)
(* wide, so an integer is modelled as a little-endian sequence of base-256 *)
(* digits in two's complement with an infinite sign extension:             *)
(*   [ext |-> 0 or 255, d |-> <<d1, ..., dn>>]                             *)
(* stands for  d1 + d2*256 + ... + dn*256^(n-1) - (ext \div 255)*256^n.    *)
(* It is kept normalised (the last digit of d differs from ext), so equal  *)
(* integers are equal values.                                              *)
(***************************************************************************)
EXTENDS Integers, Sequences, FiniteSets, TLC

VARIABLES
    _registers,   \* Aarch64RegisterFile._registers: parent name -> stored value
    _last_flags,  \* Aarch64Cpu._last_flags
    lastCall,     \* the most recent call and how it ended
    before,       \* _registers as it was when the most recent call began
    nops,         \* number of calls made so far
    pickled,      \* the serialized CPU states: <<>> or <<state>>
    restored,     \* the instance restored from pickled: <<>> or <<cpu>>
    history,      \* what the original held when pickled and restored were made
    cdeclArgs,    \* the generator of Aarch64CdeclAbi.get_arguments(): <<>> or <<g>>
    syscallArgs,  \* the generator of Aarch64LinuxSyscallAbi.get_arguments()
    yielded,      \* what the generators have yielded, and when
    canon         \* a decoded instruction and its canonical names

cpuVars == <<_registers, _last_flags>>
snapVars == <<pickled, restored, history>>
abiVars == <<cdeclArgs, syscallArgs, yielded>>
vars == <<_registers, _last_flags, lastCall, before, nops, pickled, restored,
          history, cdeclArgs, syscallArgs, yielded, canon>>

-----------------------------------------------------------------------------
(* Bounds of the exploration.                                              *)

\* Number of calls in one run.
MaxOps == 2

\* Highest index of the indexed families (X, W, Q, D, S, H, B) that calls name.
MaxIndex == 0

\* Number of calls in one run of the snapshot specification.
MaxSnapOps == 5

\* Number of items requested from one argument generator.
MaxArgs == 10
MaxCpuOps == 2

-----------------------------------------------------------------------------
(* Python integers.                                                        *)

Base == 2 ^ 8

Digits == 0 .. (Base - 1)

\* The length of d without its trailing digits equal to ext.
RECURSIVE Significant(_, _, _)
Significant(ext, d, n) ==
    IF n > 0 /\ d[n] = ext THEN Significant(ext, d, n - 1) ELSE n

Strip(ext, d) == SubSeq(d, 1, Significant(ext, d, Len(d)))

MkInt(ext, d) == [ext |-> ext, d |-> Strip(ext, d)]

Digit(x, i) == IF i <= Len(x.d) THEN x.d[i] ELSE x.ext

Zero == MkInt(0, <<>>)
One == MkInt(0, <<1>>)
MinusOne == MkInt(255, <<>>)
Small(n) == MkInt(0, <<n>>)

IsNegative(x) == x.ext = 255

Max2(a, b) == IF a >= b THEN a ELSE b

Min2(a, b) == IF a <= b THEN a ELSE b

\* a + b, digit by digit with carry, over one digit more than the longer operand.
RECURSIVE AddDigits(_, _, _, _, _)
AddDigits(a, b, i, n, carry) ==
    IF i > n THEN <<>>
    ELSE LET s == Digit(a, i) + Digit(b, i) + carry
         IN  <<s % Base>> \o AddDigits(a, b, i + 1, n, s \div Base)

IntAdd(a, b) ==
    LET n == Max2(Len(a.d), Len(b.d)) + 1
        r == AddDigits(a, b, 1, n, 0)
    IN  MkInt(IF r[n] >= Base \div 2 THEN 255 ELSE 0, r)

\* a <= b
RECURSIVE LeqFrom(_, _, _)
LeqFrom(a, b, i) ==
    IF i = 0 THEN TRUE
    ELSE IF Digit(a, i) < Digit(b, i) THEN TRUE
    ELSE IF Digit(a, i) > Digit(b, i) THEN FALSE
    ELSE LeqFrom(a, b, i - 1)

IntLeq(a, b) ==
    IF a.ext # b.ext THEN IsNegative(a)
    ELSE LeqFrom(a, b, Max2(Len(a.d), Len(b.d)))

IntLt(a, b) == IntLeq(a, b) /\ a # b

\* 2 ** n
Pow2(n) ==
    MkInt(0, [i \in 1 .. (n \div 8) |-> 0] \o <<2 ^ (n % 8)>>)

\* Operators.EXTRACT(x, offset, size) on a Python int:
\* (x >> offset) & ((1 << size) - 1), for whole bytes. The digits of a
\* non-negative x above its last one are 0 and need not be built.
EXTRACT(x, offset, size) ==
    LET lo == offset \div 8
        n == size \div 8
    IN  IF x.ext = 0
        THEN MkInt(0, SubSeq(x.d, lo + 1, Min2(Len(x.d), lo + n)))
        ELSE MkInt(0, [i \in 1 .. n |-> Digit(x, lo + i)])

-----------------------------------------------------------------------------
(* Aarch64RegisterFile: the register table.                                *)

\* range(31): the general-purpose registers X0..X30 / W0..W30.
NumGPR == 31

\* range(32): the SIMD&FP registers Q0..Q31 and their D, S, H, B views.
NumSIMD == 32

\* f'X{i}'
Reg(prefix, i) == prefix \o ToString(i)

Regspec(parent, size) == [parent |-> parent, size |-> size]

\* A group of assignments _table[name] = Regspec(parent, size), given as
\* <<name, Regspec>> pairs, as a table.
Assigned(entries) ==
    [name \in {e[1] : e \in entries} |->
        (CHOOSE e \in entries : e[1] = name)[2]]

\* The loop over range(31): X{i} and W{i}.
GPREntries ==
    {<<Reg("X", i), Regspec(Reg("X", i), 64)>> : i \in 0 .. (NumGPR - 1)}
    \cup {<<Reg("W", i), Regspec(Reg("X", i), 32)>> : i \in 0 .. (NumGPR - 1)}

\* The loop over range(32): Q{i}, D{i}, S{i}, H{i} and B{i}.
SIMDEntries ==
    {<<Reg("Q", i), Regspec(Reg("Q", i), 128)>> : i \in 0 .. (NumSIMD - 1)}
    \cup {<<Reg("D", i), Regspec(Reg("Q", i), 64)>> : i \in 0 .. (NumSIMD - 1)}
    \cup {<<Reg("S", i), Regspec(Reg("Q", i), 32)>> : i \in 0 .. (NumSIMD - 1)}
    \cup {<<Reg("H", i), Regspec(Reg("Q", i), 16)>> : i \in 0 .. (NumSIMD - 1)}
    \cup {<<Reg("B", i), Regspec(Reg("Q", i), 8)>> : i \in 0 .. (NumSIMD - 1)}

\* The register table, in the order of its assignments.
_table ==
    Assigned(GPREntries)
    @@ ("SP" :> Regspec("SP", 64))
    @@ ("WSP" :> Regspec("SP", 32))
    @@ ("PC" :> Regspec("PC", 64))
    @@ Assigned(SIMDEntries)
    @@ ("FPCR" :> Regspec("FPCR", 64))
    @@ ("FPSR" :> Regspec("FPSR", 64))
    @@ ("NZCV" :> Regspec("NZCV", 64))
    @@ ("XZR" :> Regspec("XZR", 64))
    @@ ("WZR" :> Regspec("XZR", 32))

\* The register aliases handed to RegisterFile.__init__.
_aliases ==
    ("STACK" :> "SP") @@ ("FP" :> "X29") @@ ("IP1" :> "X17")
    @@ ("IP0" :> "X16") @@ ("LR" :> "X30")

\* self._all_registers after __init__: every key of the table.
_all_registers == DOMAIN _table

\* The names that own a storage cell: those that are their own parent.
Parents == {name \in DOMAIN _table : _table[name].parent = name}

\* RegisterFile._alias: the canonical name of an alias, else the name itself.
_alias(register) ==
    IF register \in DOMAIN _aliases THEN _aliases[register] ELSE register

\* RegisterFile.__contains__: a key of the alias layer or of the table.
Contains(register) == _alias(register) \in _all_registers

\* Register(size): a fresh cell holds 0.
RegisterNew(size) == Zero

\* Register.read
RegisterRead(cell) == cell

\* Register.write: a cell holds a value of its fixed width, the low width
\* bits of the integer written; a value of that width is stored as it is.
RegisterWrite(width, value) == EXTRACT(value, 0, width)

\* self._registers when every name of the table is given a cell.
InitRegisters_all == [name \in DOMAIN _table |-> RegisterNew(_table[name].size)]

\* self._registers after __init__: one cell per parent.
InitRegisters == [name \in Parents |-> RegisterNew(_table[name].size)]

\* How a call ends: normally, or with one of the errors of the taxonomy.
\* The failed assertion on the name is InvalidRegisterError, the failed
\* assertion on the value is ValueOutOfRangeError.
Ok == "ok"
InvalidRegisterError == "InvalidRegisterError"
ValueOutOfRangeError == "ValueOutOfRangeError"

\* read without the extraction of the low bits: a narrow name returns the
\* whole value of its parent.
read_noextract(regs, register) ==
    IF ~Contains(register)
    THEN [result |-> InvalidRegisterError, value |-> Zero]
    ELSE [result |-> Ok,
          value |-> RegisterRead(regs[_table[_alias(register)].parent])]

\* Aarch64RegisterFile.read on the cells regs: how it ends, and what it returns.
read(regs, register) ==
    IF ~Contains(register)
    THEN [result |-> InvalidRegisterError, value |-> Zero]
    ELSE LET name == _alias(register)
             parent == _table[name].parent
             size == _table[name].size
             value == RegisterRead(regs[parent])
         IN  IF name # parent /\ size < _table[parent].size
             THEN [result |-> Ok, value |-> EXTRACT(value, 0, size)]
             ELSE [result |-> Ok, value |-> value]

\* 2 ** size - 1, for every size of the table.
MaxOfSize ==
    [size \in {_table[name].size : name \in DOMAIN _table} |->
        IntAdd(Pow2(size), MinusOne)]

\* write that merges: the low size bits of the parent are replaced and its
\* higher bits are kept.
write_merge(regs, register, value) ==
    IF ~Contains(register)
    THEN [result |-> InvalidRegisterError, regs |-> regs]
    ELSE LET name == _alias(register)
             parent == _table[name].parent
             size == _table[name].size
             psize == _table[parent].size
             merged == MkInt(0, [i \in 1 .. (psize \div 8) |->
                                  IF i <= size \div 8 THEN Digit(value, i)
                                  ELSE Digit(regs[parent], i)])
         IN  IF ~IntLeq(value, MaxOfSize[size])
             THEN [result |-> ValueOutOfRangeError, regs |-> regs]
             ELSE [result |-> Ok,
                   regs |-> [regs EXCEPT ![parent] = RegisterWrite(psize, merged)]]

\* write that stores every value as a 64-bit word.
write_word(regs, register, value) ==
    IF ~Contains(register)
    THEN [result |-> InvalidRegisterError, regs |-> regs]
    ELSE LET name == _alias(register)
             parent == _table[name].parent
             size == _table[name].size
         IN  IF ~IntLeq(value, MaxOfSize[size])
             THEN [result |-> ValueOutOfRangeError, regs |-> regs]
             ELSE [result |-> Ok,
                   regs |-> [regs EXCEPT
                       ![parent] = RegisterWrite(_table[parent].size,
                                                 EXTRACT(value, 0, 64))]]

\* write whose bound is off by one: value <= 2 ** size.
write_offbyone(regs, register, value) ==
    IF ~Contains(register)
    THEN [result |-> InvalidRegisterError, regs |-> regs]
    ELSE LET name == _alias(register)
             parent == _table[name].parent
             size == _table[name].size
         IN  IF ~IntLeq(value, Pow2(size))
             THEN [result |-> ValueOutOfRangeError, regs |-> regs]
             ELSE [result |-> Ok,
                   regs |-> [regs EXCEPT
                       ![parent] = RegisterWrite(_table[parent].size, value)]]

\* write without the assertion on the name: an unknown name is ignored.
write_noassert(regs, register, value) ==
    IF ~Contains(register)
    THEN [result |-> Ok, regs |-> regs]
    ELSE LET name == _alias(register)
             parent == _table[name].parent
             size == _table[name].size
         IN  IF ~IntLeq(value, MaxOfSize[size])
             THEN [result |-> ValueOutOfRangeError, regs |-> regs]
             ELSE [result |-> Ok,
                   regs |-> [regs EXCEPT
                       ![parent] = RegisterWrite(_table[parent].size, value)]]

\* write that rebuilds the register cache around the written cell.
write_rebuild(regs, register, value) ==
    IF ~Contains(register)
    THEN [result |-> InvalidRegisterError, regs |-> regs]
    ELSE LET name == _alias(register)
             parent == _table[name].parent
             size == _table[name].size
         IN  IF ~IntLeq(value, MaxOfSize[size])
             THEN [result |-> ValueOutOfRangeError, regs |-> regs]
             ELSE [result |-> Ok,
                   regs |-> [P \in DOMAIN regs |->
                       IF P = parent
                       THEN RegisterWrite(_table[parent].size, value)
                       ELSE RegisterNew(_table[P].size)]]

\* Aarch64RegisterFile.write on the cells regs: how it ends, and the cells after.
write(regs, register, value) ==
    IF ~Contains(register)
    THEN [result |-> InvalidRegisterError, regs |-> regs]
    ELSE LET name == _alias(register)
             parent == _table[name].parent
             size == _table[name].size
         IN  IF ~IntLeq(value, MaxOfSize[size])
             THEN [result |-> ValueOutOfRangeError, regs |-> regs]
             ELSE [result |-> Ok,
                   regs |-> [regs EXCEPT
                       ![parent] = RegisterWrite(_table[parent].size, value)]]

\* The names canonical_registers leaves out.
not_supported == {"FPSR", "FPCR"}

\* Aarch64RegisterFile.canonical_registers
canonical_registers == _all_registers \ not_supported

\* Aarch64RegisterFile.all_registers
all_registers == _all_registers

-----------------------------------------------------------------------------
(* The calls a run makes.                                                  *)

\* Names no table key or alias matches.
UnknownRegisters == {"NOPE", "X31"}

\* The register names calls are made with.
InputRegisters ==
    {Reg(p, i) : p \in {"X", "W"}, i \in 0 .. Min2(MaxIndex, NumGPR - 1)}
    \cup {Reg(p, i) : p \in {"Q", "D", "S", "H", "B"},
                      i \in 0 .. Min2(MaxIndex, NumSIMD - 1)}
    \cup {"SP", "WSP", "PC", "FPCR", "FPSR", "NZCV", "XZR", "WZR"}
    \cup DOMAIN _aliases
    \cup UnknownRegisters

\* 0xFFFFFFFF00000001
HighOnesLowOne == MkInt(0, <<1, 0, 0, 0, 255, 255, 255, 255>>)

\* The width a name is written at (64 for a name that does not resolve).
SizeOf(register) ==
    IF Contains(register) THEN _table[_alias(register)].size ELSE 64

\* The values a register of the given width is written with: 0, 1, -1, the
\* largest value of the width, the first value past it and, up to 64 bits,
\* 0xFFFFFFFF00000001 (past the width below 64 bits).
InputValues(size) ==
    {Zero, One, MinusOne, IntAdd(Pow2(size), MinusOne), Pow2(size)}
    \cup (IF size <= 64 THEN {HighOnesLowOne} ELSE {})

NoCall == [op |-> "none", register |-> "", value |-> Zero, result |-> Ok,
           ret |-> Zero]

InitCpu ==
    /\ _registers = InitRegisters
    /\ _last_flags = [C |-> 0, V |-> 0, N |-> 0, Z |-> 0, GE |-> 0]
    /\ lastCall = NoCall
    /\ before = InitRegisters
    /\ nops = 0

InitSnap ==
    /\ pickled = <<>>
    /\ restored = <<>>
    /\ history = [taken |-> <<>>, from |-> <<>>, dirty |-> {}]

InitAbi ==
    /\ cdeclArgs = <<>>
    /\ syscallArgs = <<>>
    /\ yielded = [cdecl |-> <<>>, spill |-> <<>>, syscall |-> <<>>,
                  requests |-> 0]

\* No instruction has been decoded.
NoInstruction == [insn_name |-> <<>>, mnemonic |-> <<>>]

Init ==
    /\ InitCpu
    /\ InitSnap
    /\ InitAbi
    /\ canon = [calls |-> 0, instr |-> NoInstruction, first |-> <<>>,
                again |-> <<>>]

\* regfile.read(register)
ReadCall(register) ==
    /\ LET r == read(_registers, register)
       IN  lastCall' = [op |-> "read", register |-> register, value |-> Zero,
                        result |-> r.result, ret |-> r.value]
    /\ before' = _registers
    /\ UNCHANGED <<_registers, _last_flags>>

\* regfile.write(register, value)
WriteCall(register, value) ==
    /\ LET w == write(_registers, register, value)
       IN  /\ _registers' = w.regs
           /\ lastCall' = [op |-> "write", register |-> register,
                           value |-> value, result |-> w.result, ret |-> Zero]
    /\ before' = _registers
    /\ UNCHANGED _last_flags

Read(register) ==
    /\ nops < MaxOps
    /\ ReadCall(register)
    /\ nops' = nops + 1
    /\ UNCHANGED <<snapVars, abiVars, canon>>

Write(register, value) ==
    /\ nops < MaxOps
    /\ WriteCall(register, value)
    /\ nops' = nops + 1
    /\ UNCHANGED <<snapVars, abiVars, canon>>

\* The (register, value) pairs write is called with.
InputWrites ==
    UNION {{<<register, value>> : value \in InputValues(SizeOf(register))} :
           register \in InputRegisters}

Next ==
    \/ \E register \in InputRegisters : Read(register)
    \/ \E w \in InputWrites : Write(w[1], w[2])

Spec == Init /\ [][Next]_vars

-----------------------------------------------------------------------------
(* Aarch64Cpu.__getstate__ / __setstate__: snapshot and restore.           *)

\* Cpu.__getstate__: the state of the base class carries the register file.
CpuGetState(regs) == "regfile" :> regs

\* Cpu.__setstate__: the register file of the restored instance.
CpuSetState(state) == state["regfile"]

\* Aarch64Cpu.__getstate__: the base state with _last_flags added.
GetState(regs, flags) == ("_last_flags" :> flags) @@ CpuGetState(regs)

\* __setstate__ without the call of the base class: the instance is left
\* with a newly constructed register file.
SetState_nosuper(state) ==
    [_last_flags |-> state["_last_flags"], regs |-> InitRegisters]

\* Aarch64Cpu.__setstate__: the instance a state is restored into.
SetState(state) ==
    [_last_flags |-> state["_last_flags"], regs |-> CpuSetState(state)]

\* The writes of the snapshot specification, to either instance.
SnapWrites ==
    {<<"X0", One>>, <<"W0", MaxOfSize[32]>>, <<"Q0", MaxOfSize[128]>>,
     <<"S0", One>>, <<"LR", HighOnesLowOne>>}

Called(op) ==
    [op |-> op, register |-> "", value |-> Zero, result |-> Ok, ret |-> Zero]

\* The original is serialized.
Snapshot ==
    /\ nops < MaxSnapOps
    /\ pickled' = <<GetState(_registers, _last_flags)>>
    /\ history' = [history EXCEPT
           !.taken = <<[regs |-> _registers, flags |-> _last_flags]>>]
    /\ lastCall' = Called("snapshot")
    /\ before' = _registers
    /\ nops' = nops + 1
    /\ UNCHANGED <<cpuVars, restored, abiVars, canon>>

\* The serialized state is restored into a fresh instance.
Restore ==
    /\ nops < MaxSnapOps
    /\ pickled # <<>>
    /\ restored' = <<SetState(pickled[1])>>
    /\ history' = [history EXCEPT !.from = history.taken, !.dirty = {}]
    /\ lastCall' = Called("restore")
    /\ before' = _registers
    /\ nops' = nops + 1
    /\ UNCHANGED <<cpuVars, pickled, abiVars, canon>>

\* The original is written.
WriteOriginal(register, value) ==
    /\ nops < MaxSnapOps
    /\ WriteCall(register, value)
    /\ nops' = nops + 1
    /\ UNCHANGED <<snapVars, abiVars, canon>>

\* The restored instance is written.
WriteRestored(register, value) ==
    /\ nops < MaxSnapOps
    /\ restored # <<>>
    /\ LET w == write(restored[1].regs, register, value)
       IN  /\ restored' = <<[restored[1] EXCEPT !.regs = w.regs]>>
           /\ lastCall' = [op |-> "write_restored", register |-> register,
                           value |-> value, result |-> w.result, ret |-> Zero]
           /\ history' = [history EXCEPT
                  !.dirty = IF w.result = Ok
                            THEN @ \cup {_table[_alias(register)].parent}
                            ELSE @]
    /\ before' = _registers
    /\ nops' = nops + 1
    /\ UNCHANGED <<cpuVars, pickled, abiVars, canon>>

NextSnap ==
    \/ \E w \in SnapWrites : WriteOriginal(w[1], w[2])
    \/ Snapshot
    \/ Restore
    \/ \E w \in SnapWrites : WriteRestored(w[1], w[2])

SpecSnap == Init /\ [][NextSnap]_vars

-----------------------------------------------------------------------------
(* Aarch64CdeclAbi and Aarch64LinuxSyscallAbi: the argument generators.    *)

\* Aarch64Cpu.address_bit_size
address_bit_size == 64

\* Cpu.__getattr__: self._cpu.STACK reads the register of that name.
CpuGetAttr(regs, name) == read(regs, name).value

\* Abi.values_from: the value that follows base, one word further.
ValuesFromNext(base) == IntAdd(base, Small(address_bit_size \div 8))

\* An item a generator yields: a register name or a stack address.
RegItem(name) == [kind |-> "register", name |-> name, address |-> Zero]
StackItem(address) == [kind |-> "stack", name |-> "", address |-> address]

\* The registers Aarch64CdeclAbi.get_arguments goes through.
CdeclRegisters == <<"X0", "X1", "X2", "X3", "X4", "X5", "X6", "X7">>

\* A generator that has not run yet.
NewGenerator == [n |-> 0, base |-> Zero]

\* get_arguments that goes through X0..X6 only.
CdeclNext_short(g, regs) ==
    IF g.n < Len(CdeclRegisters) - 1
    THEN [g |-> [g EXCEPT !.n = @ + 1], item |-> RegItem(CdeclRegisters[g.n + 1])]
    ELSE LET base == IF g.n = Len(CdeclRegisters) - 1
                     THEN CpuGetAttr(regs, "STACK")
                     ELSE ValuesFromNext(g.base)
         IN  [g |-> [n |-> g.n + 1, base |-> base], item |-> StackItem(base)]

\* One step of the generator of Aarch64CdeclAbi.get_arguments, which has
\* yielded g.n items: the generator after it and the item it yields. The
\* second loop reads STACK when it starts.
CdeclNext(g, regs) ==
    IF g.n < Len(CdeclRegisters)
    THEN [g |-> [g EXCEPT !.n = @ + 1], item |-> RegItem(CdeclRegisters[g.n + 1])]
    ELSE LET base == IF g.n = Len(CdeclRegisters)
                     THEN CpuGetAttr(regs, "STACK")
                     ELSE ValuesFromNext(g.base)
         IN  [g |-> [n |-> g.n + 1, base |-> base], item |-> StackItem(base)]

\* range(6)
NumSyscallArgs == 6

StopIteration == "StopIteration"

\* The syscall generator over range(7).
SyscallNext_seven(g) ==
    IF g.n < NumSyscallArgs + 1
    THEN [g |-> [g EXCEPT !.n = @ + 1], result |-> Ok,
          item |-> RegItem(Reg("X", g.n))]
    ELSE [g |-> g, result |-> StopIteration, item |-> RegItem("")]

\* One step of the generator of Aarch64LinuxSyscallAbi.get_arguments:
\* 'X{}'.format(i) for i in range(6), then the generator is exhausted.
SyscallNext(g) ==
    IF g.n < NumSyscallArgs
    THEN [g |-> [g EXCEPT !.n = @ + 1], result |-> Ok,
          item |-> RegItem(Reg("X", g.n))]
    ELSE [g |-> g, result |-> StopIteration, item |-> RegItem("")]

\* The writes of the ABI specification: the stack pointer, by its names.
AbiWrites ==
    {<<"SP", HighOnesLowOne>>, <<"STACK", MaxOfSize[64]>>, <<"WSP", Small(16)>>}

\* A register is written between two requests.
WriteBetween(register, value) ==
    /\ WriteCall(register, value)
    /\ UNCHANGED <<nops, snapVars, abiVars, canon>>

\* Aarch64CdeclAbi.get_arguments(): a new generator; nothing runs yet.
GetArguments ==
    /\ cdeclArgs' = <<NewGenerator>>
    /\ yielded' = [yielded EXCEPT !.cdecl = <<>>, !.spill = <<>>]
    /\ lastCall' = Called("get_arguments")
    /\ before' = _registers
    /\ UNCHANGED <<cpuVars, nops, snapVars, syscallArgs, canon>>

\* next() on the generator of Aarch64CdeclAbi.get_arguments().
NextArgument ==
    /\ cdeclArgs # <<>>
    /\ Len(yielded.cdecl) < MaxArgs
    /\ LET step == CdeclNext(cdeclArgs[1], _registers)
       IN  /\ cdeclArgs' = <<step.g>>
           /\ yielded' = [yielded EXCEPT
                  !.cdecl = Append(@, step.item),
                  !.spill = IF Len(yielded.cdecl) = Len(CdeclRegisters)
                            THEN <<_registers["SP"]>> ELSE @]
    /\ lastCall' = Called("next")
    /\ before' = _registers
    /\ UNCHANGED <<cpuVars, nops, snapVars, syscallArgs, canon>>

\* Aarch64LinuxSyscallAbi.get_arguments(): a new generator.
SyscallGetArguments ==
    /\ syscallArgs' = <<NewGenerator>>
    /\ yielded' = [yielded EXCEPT !.syscall = <<>>, !.requests = 0]
    /\ lastCall' = Called("syscall_get_arguments")
    /\ before' = _registers
    /\ UNCHANGED <<cpuVars, nops, snapVars, cdeclArgs, canon>>

\* next() on the generator of Aarch64LinuxSyscallAbi.get_arguments().
NextSyscallArgument ==
    /\ syscallArgs # <<>>
    /\ yielded.requests < MaxArgs
    /\ LET step == SyscallNext(syscallArgs[1])
       IN  /\ syscallArgs' = <<step.g>>
           /\ yielded' = [yielded EXCEPT
                  !.syscall = IF step.result = Ok THEN Append(@, step.item) ELSE @,
                  !.requests = @ + 1]
           /\ lastCall' = [Called("syscall_next") EXCEPT !.result = step.result]
    /\ before' = _registers
    /\ UNCHANGED <<cpuVars, nops, snapVars, cdeclArgs, canon>>

NextAbi ==
    \/ \E w \in AbiWrites : WriteBetween(w[1], w[2])
    \/ GetArguments
    \/ NextArgument
    \/ SyscallGetArguments
    \/ NextSyscallArgument

SpecAbi == Init /\ [][NextAbi]_vars

-----------------------------------------------------------------------------
(* Aarch64Cpu.canonicalize_instruction_name.                               *)

\* A string is the sequence of its characters.
LowerCase ==
    <<"a", "b", "c", "d", "e", "f", "g", "h", "i", "j", "k", "l", "m",
      "n", "o", "p", "q", "r", "s", "t", "u", "v", "w", "x", "y", "z">>

UpperCase ==
    <<"A", "B", "C", "D", "E", "F", "G", "H", "I", "J", "K", "L", "M",
      "N", "O", "P", "Q", "R", "S", "T", "U", "V", "W", "X", "Y", "Z">>

\* str.upper
UpperChar(c) ==
    IF \E i \in 1 .. Len(LowerCase) : LowerCase[i] = c
    THEN UpperCase[CHOOSE i \in 1 .. Len(LowerCase) : LowerCase[i] = c]
    ELSE c

upper(str) == [i \in 1 .. Len(str) |-> UpperChar(str[i])]

\* str.startswith
startswith(str, prefix) ==
    /\ Len(prefix) <= Len(str)
    /\ SubSeq(str, 1, Len(prefix)) = prefix

\* INSTRUCTION_MAPPINGS with the entry 'MOVZ': 'MOV'.
INSTRUCTION_MAPPINGS_movz == <<"M", "O", "V", "Z">> :> <<"M", "O", "V">>

\* INSTRUCTION_MAPPINGS: no entry.
INSTRUCTION_MAPPINGS == [name \in {} |-> name]

\* dict.get(key, default)
DictGet(dict, key, default) ==
    IF key \in DOMAIN dict THEN dict[key] ELSE default

\* canonicalize_instruction_name that compares the reported name as it is.
canonicalize_instruction_name_noupper(instr) ==
    LET name == instr.insn_name
    IN  IF name = <<"M", "O", "V">> /\ startswith(instr.mnemonic, <<"l", "s", "r">>)
        THEN <<"L", "S", "R">>
        ELSE IF name = <<"M", "O", "V">>
                /\ startswith(instr.mnemonic, <<"l", "s", "l">>)
        THEN <<"L", "S", "L">>
        ELSE IF name = <<"M", "O", "V">>
                /\ startswith(instr.mnemonic, <<"a", "s", "r">>)
        THEN <<"A", "S", "R">>
        ELSE DictGet(INSTRUCTION_MAPPINGS, upper(name), upper(name))

\* Aarch64Cpu.canonicalize_instruction_name
canonicalize_instruction_name(instr) ==
    LET name == upper(instr.insn_name)
    IN  IF name = <<"M", "O", "V">> /\ startswith(instr.mnemonic, <<"l", "s", "r">>)
        THEN <<"L", "S", "R">>
        ELSE IF name = <<"M", "O", "V">>
                /\ startswith(instr.mnemonic, <<"l", "s", "l">>)
        THEN <<"L", "S", "L">>
        ELSE IF name = <<"M", "O", "V">>
                /\ startswith(instr.mnemonic, <<"a", "s", "r">>)
        THEN <<"A", "S", "R">>
        ELSE DictGet(INSTRUCTION_MAPPINGS, name, name)

\* The names the decoder reports.
InputNames ==
    {<<"m", "o", "v">>, <<"M", "O", "V">>, <<"M", "o", "v">>,
     <<"m", "o", "v", "z">>, <<"M", "O", "V", "Z">>, <<"m", "o", "v", "k">>,
     <<"l", "s", "r">>, <<"L", "S", "R">>, <<"l", "s", "l">>,
     <<"a", "s", "r">>, <<"a", "d", "d">>, <<"r", "e", "t">>}

\* The mnemonic texts that come with them.
InputMnemonics ==
    {<<"m", "o", "v">>, <<"l", "s", "r">>, <<"l", "s", "l">>,
     <<"a", "s", "r">>, <<"l", "s", "r", "v">>, <<"L", "S", "R">>,
     <<"l", "s">>, <<"m", "o", "v", "z">>, <<>>}

\* A decoded instruction.
InitCanon ==
    /\ InitCpu
    /\ InitSnap
    /\ InitAbi
    /\ \E name \in InputNames, mnemonic \in InputMnemonics :
           canon = [calls |-> 0,
                    instr |-> [insn_name |-> name, mnemonic |-> mnemonic],
                    first |-> <<>>, again |-> <<>>]

\* The name of the decoded instruction is canonicalized.
Canonicalize ==
    /\ canon.calls = 0
    /\ canon' = [canon EXCEPT
           !.calls = 1,
           !.first = canonicalize_instruction_name(canon.instr)]
    /\ UNCHANGED <<cpuVars, lastCall, before, nops, snapVars, abiVars>>

\* The instruction is reported under its canonical name, with the same
\* mnemonic text, and canonicalized.
CanonicalizeAgain ==
    /\ canon.calls = 1
    /\ canon' = [canon EXCEPT
           !.calls = 2,
           !.again = canonicalize_instruction_name(
                         [canon.instr EXCEPT !.insn_name = canon.first])]
    /\ UNCHANGED <<cpuVars, lastCall, before, nops, snapVars, abiVars>>

NextCanon ==
    \/ Canonicalize
    \/ CanonicalizeAgain

SpecCanon == InitCanon /\ [][NextCanon]_vars

-----------------------------------------------------------------------------
(* Aarch64Operand, Aarch64Cpu.MOV and set_flags, and the register side of   *)
(* the two ABIs.                                                            *)

\* The operand types of the decoder.
ARM64_OP_REG == "ARM64_OP_REG"
ARM64_OP_MEM == "ARM64_OP_MEM"
ARM64_OP_IMM == "ARM64_OP_IMM"
ARM64_OP_CIMM == "ARM64_OP_CIMM"
ARM64_OP_FP == "ARM64_OP_FP"

None == "None"

\* How a call on an operand fails: NotImplementedError for a type that is
\* not handled, a failed assertion for an option that is not handled.
UnsupportedOperandKindError == "UnsupportedOperandKindError"

\* The decode descriptor of an operand: its type, and the register name or
\* the literal it carries.
RegOperand(name) == [type |-> ARM64_OP_REG, reg |-> name, imm |-> Zero]
ImmOperand(type, imm) == [type |-> type, reg |-> "", imm |-> imm]

\* Aarch64Operand.read that takes a C-immediate for an immediate.
Operand_read_cimm(regs, operand, nbits, with_carry) ==
    IF nbits # None \/ with_carry
    THEN [result |-> UnsupportedOperandKindError, value |-> Zero]
    ELSE IF operand.type = ARM64_OP_REG
    THEN read(regs, operand.reg)
    ELSE IF operand.type \in {ARM64_OP_IMM, ARM64_OP_CIMM}
    THEN [result |-> Ok, value |-> operand.imm]
    ELSE [result |-> UnsupportedOperandKindError, value |-> Zero]

\* Aarch64Operand.read: how it ends, and the value it returns.
Operand_read(regs, operand, nbits, with_carry) ==
    IF nbits # None
    THEN [result |-> UnsupportedOperandKindError, value |-> Zero]
    ELSE IF with_carry
    THEN [result |-> UnsupportedOperandKindError, value |-> Zero]
    ELSE IF operand.type = ARM64_OP_REG
    THEN read(regs, operand.reg)
    ELSE IF operand.type = ARM64_OP_IMM
    THEN [result |-> Ok, value |-> operand.imm]
    ELSE [result |-> UnsupportedOperandKindError, value |-> Zero]

\* Aarch64Operand.write that drops a value written to an operand that is
\* no register.
Operand_write_ignore(regs, operand, value, nbits) ==
    IF nbits # None
    THEN [result |-> UnsupportedOperandKindError, regs |-> regs]
    ELSE IF operand.type = ARM64_OP_REG
    THEN write(regs, operand.reg, value)
    ELSE [result |-> Ok, regs |-> regs]

\* Aarch64Operand.write: how it ends, and the cells after.
Operand_write(regs, operand, value, nbits) ==
    IF nbits # None
    THEN [result |-> UnsupportedOperandKindError, regs |-> regs]
    ELSE IF operand.type = ARM64_OP_REG
    THEN write(regs, operand.reg, value)
    ELSE [result |-> UnsupportedOperandKindError, regs |-> regs]

\* Aarch64Cpu.MOV: result = src.read(); dest.write(result).
MOV(regs, dest, src) ==
    LET result == Operand_read(regs, src, None, FALSE)
    IN  IF result.result # Ok
        THEN [result |-> result.result, regs |-> regs]
        ELSE Operand_write(regs, dest, result.value, None)

\* set_flags that stages the flags it is given.
set_flags_update(last_flags, flags) ==
    [f \in DOMAIN last_flags |->
        IF f \in DOMAIN flags THEN flags[f] ELSE last_flags[f]]

\* Aarch64Cpu.set_flags: pass. The pending flags after the call.
set_flags(last_flags, flags) == last_flags

\* Cpu.__setattr__: self._cpu.PC = value writes the register of that name.
CpuSetAttr(regs, name, value) == write(regs, name, value)

\* ret that saves the program counter in the link register.
ret_swapped(regs) == CpuSetAttr(regs, "LR", CpuGetAttr(regs, "PC"))

\* Aarch64CdeclAbi.ret
ret(regs) == CpuSetAttr(regs, "PC", CpuGetAttr(regs, "LR"))

\* Aarch64CdeclAbi.write_result
Aarch64CdeclAbi_write_result(regs, result) == CpuSetAttr(regs, "X0", result)

\* write_result that stores into the syscall-number register.
Aarch64LinuxSyscallAbi_write_result_x8(regs, result) ==
    CpuSetAttr(regs, "X8", result)

\* Aarch64LinuxSyscallAbi.write_result
Aarch64LinuxSyscallAbi_write_result(regs, result) ==
    CpuSetAttr(regs, "X0", result)

\* Aarch64LinuxSyscallAbi.syscall_number
syscall_number(regs) == CpuGetAttr(regs, "X8")

\* The operands of the decoded instructions: register operands, immediates
\* (a signed 64-bit field of the descriptor), and one operand of each other
\* type.
RegOperands == {RegOperand(name) : name \in {"X0", "W0", "X1", "SP"}}

ImmOperands ==
    {ImmOperand(ARM64_OP_IMM, imm) : imm \in {One, MinusOne, HighOnesLowOne}}

OtherOperands ==
    {ImmOperand(ARM64_OP_CIMM, One), ImmOperand(ARM64_OP_FP, One),
     ImmOperand(ARM64_OP_MEM, Zero)}

Operands == RegOperands \cup ImmOperands \cup OtherOperands

\* The options read and write are called with: (nbits, with_carry).
ReadOptions == {<<None, FALSE>>, <<"32", FALSE>>, <<None, TRUE>>}

\* The (dest, src) pairs MOV is decoded with: two registers of one width,
\* or a register and an immediate that is encodable for its width.
MovPairs ==
    {<<RegOperand(d), RegOperand(r)>> : d \in {"X0", "X1", "SP"},
                                        r \in {"X0", "X1", "SP"}}
    \cup {<<RegOperand("W0"), RegOperand("W0")>>,
          <<RegOperand("W0"), RegOperand("W1")>>,
          <<RegOperand("W0"), ImmOperand(ARM64_OP_IMM, One)>>,
          <<RegOperand("W0"), ImmOperand(ARM64_OP_IMM, MinusOne)>>}
    \cup {<<RegOperand(d), src>> : d \in {"X0", "X1"}, src \in ImmOperands}

\* The keyword arguments set_flags is called with.
FlagArguments ==
    {[C |-> 1], [N |-> 1, Z |-> 1], [C |-> 1, V |-> 1, N |-> 1, Z |-> 1]}

\* The writes of this specification through the register file.
CpuWrites ==
    {<<"LR", HighOnesLowOne>>, <<"X8", Small(64)>>, <<"X1", MaxOfSize[64]>>,
     <<"NZCV", One>>, <<"W1", MaxOfSize[32]>>}

\* The values write_result and Operand.write are called with.
ResultValues == {One, HighOnesLowOne, MaxOfSize[64]}

CpuCall(op, result, ret_value, args) ==
    [op |-> op, register |-> "", value |-> Zero, result |-> result,
     ret |-> ret_value, args |-> args]

\* operand.read(nbits, with_carry)
OperandRead(operand, nbits, with_carry) ==
    /\ nops < MaxCpuOps
    /\ LET r == Operand_read(_registers, operand, nbits, with_carry)
       IN  lastCall' = CpuCall("operand_read", r.result, r.value,
                               [operand |-> operand, nbits |-> nbits,
                                with_carry |-> with_carry])
    /\ before' = _registers
    /\ nops' = nops + 1
    /\ UNCHANGED <<cpuVars, snapVars, abiVars, canon>>

\* operand.write(value, nbits)
OperandWrite(operand, value, nbits) ==
    /\ nops < MaxCpuOps
    /\ LET w == Operand_write(_registers, operand, value, nbits)
       IN  /\ _registers' = w.regs
           /\ lastCall' = CpuCall("operand_write", w.result, Zero,
                                  [operand |-> operand, value |-> value,
                                   nbits |-> nbits])
    /\ before' = _registers
    /\ nops' = nops + 1
    /\ UNCHANGED <<_last_flags, snapVars, abiVars, canon>>

\* cpu.MOV(dest, src)
ExecuteMOV(dest, src) ==
    /\ nops < MaxCpuOps
    /\ LET m == MOV(_registers, dest, src)
       IN  /\ _registers' = m.regs
           /\ lastCall' = CpuCall("MOV", m.result, Zero,
                                  [dest |-> dest, src |-> src])
    /\ before' = _registers
    /\ nops' = nops + 1
    /\ UNCHANGED <<_last_flags, snapVars, abiVars, canon>>

\* cpu.set_flags(**flags)
SetFlags(flags) ==
    /\ nops < MaxCpuOps
    /\ _last_flags' = set_flags(_last_flags, flags)
    /\ lastCall' = CpuCall("set_flags", Ok, Zero, [flags |-> flags])
    /\ before' = _registers
    /\ nops' = nops + 1
    /\ UNCHANGED <<_registers, snapVars, abiVars, canon>>

\* Aarch64CdeclAbi.ret()
Ret ==
    /\ nops < MaxCpuOps
    /\ LET w == ret(_registers)
       IN  /\ _registers' = w.regs
           /\ lastCall' = CpuCall("ret", w.result, Zero, [abi |-> "cdecl"])
    /\ before' = _registers
    /\ nops' = nops + 1
    /\ UNCHANGED <<_last_flags, snapVars, abiVars, canon>>

\* Aarch64CdeclAbi.write_result(result)
CdeclWriteResult(result) ==
    /\ nops < MaxCpuOps
    /\ LET w == Aarch64CdeclAbi_write_result(_registers, result)
       IN  /\ _registers' = w.regs
           /\ lastCall' = CpuCall("write_result", w.result, Zero,
                                  [abi |-> "cdecl", result |-> result])
    /\ before' = _registers
    /\ nops' = nops + 1
    /\ UNCHANGED <<_last_flags, snapVars, abiVars, canon>>

\* Aarch64LinuxSyscallAbi.write_result(result)
SyscallWriteResult(result) ==
    /\ nops < MaxCpuOps
    /\ LET w == Aarch64LinuxSyscallAbi_write_result(_registers, result)
       IN  /\ _registers' = w.regs
           /\ lastCall' = CpuCall("write_result", w.result, Zero,
                                  [abi |-> "syscall", result |-> result])
    /\ before' = _registers
    /\ nops' = nops + 1
    /\ UNCHANGED <<_last_flags, snapVars, abiVars, canon>>

\* Aarch64LinuxSyscallAbi.syscall_number()
SyscallNumber ==
    /\ nops < MaxCpuOps
    /\ lastCall' = CpuCall("syscall_number", Ok, syscall_number(_registers),
                           [abi |-> "syscall"])
    /\ before' = _registers
    /\ nops' = nops + 1
    /\ UNCHANGED <<cpuVars, snapVars, abiVars, canon>>

NextCpu ==
    \/ \E operand \in Operands, options \in ReadOptions :
           OperandRead(operand, options[1], options[2])
    \/ \E operand \in Operands, value \in ResultValues, nbits \in {None, "32"} :
           OperandWrite(operand, value, nbits)
    \/ \E pair \in MovPairs : ExecuteMOV(pair[1], pair[2])
    \/ \E flags \in FlagArguments : SetFlags(flags)
    \/ Ret
    \/ \E result \in ResultValues : CdeclWriteResult(result)
    \/ \E result \in ResultValues : SyscallWriteResult(result)
    \/ SyscallNumber
    \/ \E w \in CpuWrites : Write(w[1], w[2])

SpecCpu == Init /\ [][NextCpu]_vars

-----------------------------------------------------------------------------
(* Properties of the register file.                                        *)

\* The names a caller may use: the keys of the table and the aliases.
Recognized == DOMAIN _table \cup DOMAIN _aliases

\* The parent and the width a recognized name resolves to.
ParentOf(register) == _table[_alias(register)].parent
WidthOf(register) == _table[_alias(register)].size

\* The names whose parent is wider than they are.
NarrowNames == {n \in DOMAIN _table : _table[n].size < _table[_table[n].parent].size}

\* 0 <= v < 2^width
InRange(v, width) == IntLeq(Zero, v) /\ IntLt(v, Pow2(width))

\* x mod 2^width, for a width of whole bytes: the digits of x below 2^width.
ModPow2(x, width) ==
    LET n == width \div 8
    IN  IF Len(x.d) <= n /\ ~IsNegative(x) THEN x
        ELSE MkInt(0, [i \in 1 .. n |-> Digit(x, i)])

WroteOk == lastCall.op = "write" /\ lastCall.result = Ok

\* C1: after write(W, v) through a narrow name W with 0 <= v < 2^width(W),
\* read of W's parent returns exactly v: the parent's previous high bits are
\* gone.
ZeroExtensionOnWrite ==
    (/\ WroteOk
     /\ lastCall.register \in NarrowNames
     /\ InRange(lastCall.value, WidthOf(lastCall.register)))
    => read(_registers, ParentOf(lastCall.register))
           = [result |-> Ok, value |-> lastCall.value]

\* A narrow write of 1 over a parent whose bits above the narrow width were set.
ZeroExtensionWitness ==
    /\ WroteOk
    /\ lastCall.register \in NarrowNames
    /\ lastCall.value = One
    /\ before[ParentOf(lastCall.register)]
           = MaxOfSize[_table[ParentOf(lastCall.register)].size]
    /\ _registers[ParentOf(lastCall.register)] = One

\* The recognized names that resolve to each parent.
ViewsOf == [p \in Parents |-> {N \in Recognized : ParentOf(N) = p}]

\* C2: read of a recognized name N that resolves to (P, w) returns the low w
\* bits of P's cell, read(N) = read(P) mod 2^w: for every name in the
\* constructed state, and from then on for every name of a parent whenever
\* that parent's cell has changed (a name of an unchanged cell reads what it
\* read before); a read call returns that value; and after
\* write(X0, 0xFFFFFFFF00000001) read(W0) returns 1.
LowBitExtractionOnRead ==
    /\ \A P \in Parents :
           (nops = 0 \/ _registers[P] # before[P])
               => \A N \in ViewsOf[P] :
                      /\ read(_registers, P) = [result |-> Ok, value |-> _registers[P]]
                      /\ read(_registers, N)
                             = [result |-> Ok,
                                value |-> ModPow2(read(_registers, P).value,
                                                  WidthOf(N))]
    /\ (lastCall.op = "read" /\ lastCall.register \in Recognized)
           => /\ lastCall.result = Ok
              /\ lastCall.ret = ModPow2(_registers[ParentOf(lastCall.register)],
                                        WidthOf(lastCall.register))
    /\ (WroteOk /\ lastCall.register = "X0" /\ lastCall.value = HighOnesLowOne)
           => read(_registers, "W0").value = One

\* read(W0) returned 1 while X0 held 0xFFFFFFFF00000001.
LowBitExtractionWitness ==
    /\ lastCall.op = "read"
    /\ lastCall.register = "W0"
    /\ _registers["X0"] = HighOnesLowOne
    /\ lastCall.ret = One

\* C3: after write(R, v) to a top-level register R with 0 <= v < 2^width(R),
\* read(R) returns v.
RoundTrip ==
    (/\ WroteOk
     /\ lastCall.register \in Parents
     /\ InRange(lastCall.value, WidthOf(lastCall.register)))
    => read(_registers, lastCall.register)
           = [result |-> Ok, value |-> lastCall.value]

\* The largest 128-bit value written to Q0 over a cell that held something else.
RoundTripWitness ==
    /\ WroteOk
    /\ lastCall.register = "Q0"
    /\ lastCall.value = MaxOfSize[128]
    /\ before["Q0"] = One
    /\ read(_registers, "Q0").value = MaxOfSize[128]

\* C4: write(R, v) with R recognized and v >= 2^width(R) fails with
\* ValueOutOfRangeError and changes no register cell.
BoundsCheck ==
    (/\ lastCall.op = "write"
     /\ lastCall.register \in Recognized
     /\ IntLeq(Pow2(WidthOf(lastCall.register)), lastCall.value))
    => /\ lastCall.result = ValueOutOfRangeError
       /\ _registers = before

\* write(S0, 2^32) refused while Q0 held the largest 128-bit value.
BoundsCheckWitness ==
    /\ lastCall.op = "write"
    /\ lastCall.register = "S0"
    /\ lastCall.value = Pow2(32)
    /\ lastCall.result = ValueOutOfRangeError
    /\ _registers["Q0"] = MaxOfSize[128]

\* C5: read and write of a name that is neither a table key nor an alias
\* fail with InvalidRegisterError and change no register cell.
UnknownName ==
    /\ \A name \in UnknownRegisters :
           read(_registers, name).result = InvalidRegisterError
    /\ (lastCall.op \in {"read", "write"} /\ lastCall.register \notin Recognized)
           => /\ lastCall.result = InvalidRegisterError
              /\ _registers = before

\* write("NOPE", 0) refused in a state where read("NOPE") is refused too and
\* a register holds a value.
UnknownNameWitness ==
    /\ lastCall.op = "write"
    /\ lastCall.register = "NOPE"
    /\ lastCall.value = Zero
    /\ lastCall.result = InvalidRegisterError
    /\ read(_registers, "NOPE").result = InvalidRegisterError
    /\ _registers["X0"] = One

\* C6: every cell holds a value v with 0 <= v < 2^width of its register, and
\* a write with a negative value is rejected rather than stored.
RegisterCellInvariant ==
    /\ \A p \in Parents : InRange(_registers[p], _table[p].size)
    /\ (lastCall.op = "write" /\ IsNegative(lastCall.value))
           => lastCall.result # Ok

-----------------------------------------------------------------------------
(* Properties of snapshot and restore.                                     *)

\* C7: in the instance restored from a snapshot, every register that has not
\* been written in that instance since reads the value it had in the original
\* when the snapshot was taken, and _last_flags is the one of that time,
\* whatever has been written to the original since; and a write to the
\* restored instance changes no cell of the original.
SnapshotRestore ==
    /\ restored # <<>>
           => /\ \A P \in Parents \ history.dirty :
                     read(restored[1].regs, P)
                         = read(history.from[1].regs, P)
              /\ restored[1]._last_flags = history.from[1].flags
    /\ lastCall.op = "write_restored" => _registers = before

\* X0 held 1 at the snapshot, the original was written after it, and the
\* instance restored from the snapshot reads 1.
SnapshotRestoreWitness ==
    /\ restored # <<>>
    /\ history.dirty = {}
    /\ history.from[1].regs["X0"] = One
    /\ _registers["X0"] = MaxOfSize[32]
    /\ read(restored[1].regs, "X0").value = One

-----------------------------------------------------------------------------
(* Properties of the argument generators.                                  *)

\* C8: the items of Aarch64CdeclAbi.get_arguments() are first the names
\* X0..X7 in that order; from the 9th on they are stack addresses: the 9th is
\* the stack pointer's value when it is requested, and each later one is one
\* 8-byte slot above the one before it, so the addresses strictly increase
\* and no slot comes twice.
CdeclArgumentOrder ==
    \A k \in 1 .. Len(yielded.cdecl) :
        IF k <= 8
        THEN yielded.cdecl[k] = RegItem(Reg("X", k - 1))
        ELSE /\ yielded.cdecl[k].kind = "stack"
             /\ yielded.spill # <<>>
             /\ yielded.cdecl[k].address
                    = IntAdd(yielded.spill[1], Small(8 * (k - 9)))
             /\ \A j \in 9 .. (k - 1) :
                    IntLt(yielded.cdecl[j].address, yielded.cdecl[k].address)

\* Ten items were requested; the stack pointer was 0xFFFFFFFF00000001 at the
\* 9th request and has been written since.
CdeclArgumentOrderWitness ==
    /\ Len(yielded.cdecl) = 10
    /\ yielded.spill = <<HighOnesLowOne>>
    /\ _registers["SP"] = Small(16)
    /\ yielded.cdecl[9].address = HighOnesLowOne
    /\ yielded.cdecl[10].address = IntAdd(HighOnesLowOne, Small(8))

\* C9: the items of Aarch64LinuxSyscallAbi.get_arguments() are X0..X5 in
\* that order and nothing else; a request after the 6th item ends with
\* StopIteration and yields nothing, so there is never a 7th item nor a
\* stack address.
SyscallArgumentCap ==
    /\ Len(yielded.syscall) = Min2(yielded.requests, 6)
    /\ \A k \in 1 .. Len(yielded.syscall) :
           yielded.syscall[k] = RegItem(Reg("X", k - 1))
    /\ (lastCall.op = "syscall_next" /\ yielded.requests > 6)
           => lastCall.result = StopIteration
    /\ (lastCall.op = "syscall_next" /\ yielded.requests \in 1 .. 6)
           => lastCall.result = Ok

\* Eight items were requested and six were yielded.
SyscallArgumentCapWitness ==
    /\ yielded.requests = 8
    /\ Len(yielded.syscall) = 6
    /\ yielded.syscall[6] = RegItem("X5")
    /\ lastCall.op = "syscall_next"
    /\ lastCall.result = StopIteration

-----------------------------------------------------------------------------
(* Properties of canonicalization.                                         *)

\* C10: canonicalizing an instruction reported under the canonical name of
\* a decoded instruction, with the same mnemonic text, returns that name:
\* canonicalize(canonicalize(x)) = canonicalize(x).
CanonicalizationIdempotent ==
    canon.calls = 2 => canon.again = canon.first

\* mov with the mnemonic text lsr became LSR, and LSR stayed LSR.
CanonicalizationWitness ==
    /\ canon.calls = 2
    /\ canon.instr = [insn_name |-> <<"m", "o", "v">>,
                      mnemonic |-> <<"l", "s", "r">>]
    /\ canon.first = <<"L", "S", "R">>
    /\ canon.again = <<"L", "S", "R">>

\* The reported name is MOV in some letter case.
IsMov(name) ==
    /\ Len(name) = 3
    /\ name[1] \in {"m", "M"}
    /\ name[2] \in {"o", "O"}
    /\ name[3] \in {"v", "V"}

\* The first three characters of the mnemonic text, if it has that many.
Prefix3(mnemonic) ==
    IF Len(mnemonic) >= 3 THEN SubSeq(mnemonic, 1, 3) ELSE <<>>

ShiftPrefixes == {<<"l", "s", "r">>, <<"l", "s", "l">>, <<"a", "s", "r">>}

\* C11: a name that is MOV in any letter case, with a mnemonic text that
\* starts with lsr, lsl or asr, is canonicalized to LSR, LSL or ASR; every
\* other (name, mnemonic) pair is canonicalized to the upper-cased name
\* looked up in INSTRUCTION_MAPPINGS (the name itself without an entry), and
\* that result is the same for every mnemonic text that is no shift of MOV.
AmbiguousDecodeResolution ==
    canon.calls >= 1 =>
        LET name == canon.instr.insn_name
            prefix == Prefix3(canon.instr.mnemonic)
            plain == upper(name)
            mapped == IF plain \in DOMAIN INSTRUCTION_MAPPINGS
                      THEN INSTRUCTION_MAPPINGS[plain] ELSE plain
        IN  IF IsMov(name) /\ prefix \in ShiftPrefixes
            THEN canon.first = upper(prefix)
            ELSE /\ canon.first = mapped
                 /\ \A other \in InputMnemonics :
                        ~(IsMov(name) /\ Prefix3(other) \in ShiftPrefixes)
                            => canonicalize_instruction_name(
                                   [insn_name |-> name, mnemonic |-> other])
                                   = canon.first

\* Mov with the mnemonic text lsl became LSL.
AmbiguousDecodeWitness ==
    /\ canon.calls >= 1
    /\ canon.instr = [insn_name |-> <<"M", "o", "v">>,
                      mnemonic |-> <<"l", "s", "l">>]
    /\ canon.first = <<"L", "S", "L">>

-----------------------------------------------------------------------------
(* Properties of the register table and of the frame of a write.           *)

\* The table's part of C12: every parent is a name of all_registers, is its
\* own parent and is at least as wide as the names that resolve to it.
TableClosed ==
    \A R \in DOMAIN _table :
        LET P == _table[R].parent
        IN  /\ P \in all_registers
            /\ P \in DOMAIN _table
            /\ _table[P].parent = P
            /\ _table[P].size >= _table[R].size

\* The names that are their own parent.
OwnParents == {R \in DOMAIN _table : _table[R].parent = R}

\* C12: for every name R of the register table, the parent of R is a member
\* of all_registers, the parent of that parent is the parent itself, the
\* parent is at least as wide as R, and the names that own a cell of the
\* register file are exactly the names that are their own parent.
AliasingClosed ==
    /\ TableClosed
    /\ DOMAIN _registers = OwnParents

\* After a write to S0, a 32-bit view of the 128-bit Q0: Q0 owns a cell, S0
\* owns none.
AliasingClosedWitness ==
    /\ WroteOk
    /\ lastCall.register = "S0"
    /\ _table["S0"] = Regspec("Q0", 32)
    /\ _table["Q0"] = Regspec("Q0", 128)
    /\ "Q0" \in DOMAIN _registers
    /\ "S0" \notin DOMAIN _registers

\* C17: in every state reads and writes lead to, all_registers is the set
\* of the recognized register names, the names read and write accept, which
\* holds every name that owns a cell, and canonical_registers is
\* all_registers without FPSR and FPCR.
RegisterNameSets ==
    /\ DOMAIN _registers \subseteq all_registers
    /\ all_registers = Recognized
    /\ canonical_registers = all_registers \ {"FPSR", "FPCR"}

\* The names whose reads the frame of a write is observed through.
FrameNames ==
    {"X0", "W0", "X1", "W1", "Q0", "S0", "SP", "WSP", "STACK", "X29", "FP",
     "X30", "LR", "PC", "NZCV", "XZR"}

\* C19: a write that succeeds changes no cell but the one of the parent its
\* name resolves to, and every name with another parent reads what it read
\* before the write.
WriteFrame ==
    WroteOk =>
        LET parent == ParentOf(lastCall.register)
        IN  /\ DOMAIN _registers = DOMAIN before
            /\ \A P \in DOMAIN _registers \ {parent} :
                   _registers[P] = before[P]
            /\ \A name \in FrameNames :
                   ParentOf(name) # parent
                       => read(_registers, name) = read(before, name)

\* X0 is written through W0 while SP holds 0xFFFFFFFF00000001: SP and FP
\* read what they read before.
WriteFrameWitness ==
    /\ WroteOk
    /\ lastCall.register = "W0"
    /\ _registers["X0"] # before["X0"]
    /\ before["SP"] = HighOnesLowOne
    /\ read(_registers, "STACK").value = HighOnesLowOne
    /\ read(_registers, "FP").value = Zero

-----------------------------------------------------------------------------
(* Properties of operands, MOV, flags and the ABIs' registers.              *)

ReadOperand == lastCall.op = "operand_read"
WroteOperand == lastCall.op = "operand_write"

\* A read with no width override and no carry requested.
PlainRead ==
    /\ ReadOperand
    /\ lastCall.args.nbits = None
    /\ ~lastCall.args.with_carry

\* C13 as stated: a plain read of a Register operand returns what the
\* register file reads for that register, a plain read of an Immediate or
\* of a CompileTimeImmediate operand returns the literal of the descriptor,
\* and no read changes a cell or the pending flags.
OperandReadByKindStated ==
    /\ ReadOperand => _registers = before
    /\ PlainRead =>
           LET operand == lastCall.args.operand
           IN  /\ operand.type = ARM64_OP_REG
                      => /\ lastCall.result = Ok
                         /\ lastCall.ret = read(before, operand.reg).value
               /\ operand.type \in {ARM64_OP_IMM, ARM64_OP_CIMM}
                      => /\ lastCall.result = Ok
                         /\ lastCall.ret = operand.imm

\* C13, amended: a plain read of a Register operand returns what the
\* register file reads for that register, a plain read of an Immediate
\* operand returns the literal of the descriptor, a plain read of a
\* CompileTimeImmediate operand fails with UnsupportedOperandKindError, and
\* no read changes a cell or the pending flags.
OperandReadByKind ==
    /\ ReadOperand => _registers = before
    /\ PlainRead =>
           LET operand == lastCall.args.operand
           IN  /\ operand.type = ARM64_OP_REG
                      => /\ lastCall.result = Ok
                         /\ lastCall.ret = read(before, operand.reg).value
               /\ operand.type = ARM64_OP_IMM
                      => /\ lastCall.result = Ok
                         /\ lastCall.ret = operand.imm
               /\ operand.type = ARM64_OP_CIMM
                      => lastCall.result = UnsupportedOperandKindError

\* W1 holds 0xFFFFFFFF and the Register operand X1 is read.
OperandReadByKindWitness ==
    /\ PlainRead
    /\ lastCall.args.operand = RegOperand("X1")
    /\ _registers["X1"] = MaxOfSize[32]
    /\ lastCall.ret = MaxOfSize[32]
    /\ lastCall.result = Ok

\* C14: a read of a Memory or FloatingPointImmediate operand, a read with
\* the carry requested, a read with a width override, and a write to an
\* operand that is no Register each fail with UnsupportedOperandKindError
\* and leave every cell as it was.
OperandsFailClosed ==
    /\ (/\ ReadOperand
        /\ \/ lastCall.args.operand.type \in {ARM64_OP_MEM, ARM64_OP_FP}
           \/ lastCall.args.with_carry
           \/ lastCall.args.nbits # None)
           => /\ lastCall.result = UnsupportedOperandKindError
              /\ _registers = before
    /\ (WroteOperand /\ lastCall.args.operand.type # ARM64_OP_REG)
           => /\ lastCall.result = UnsupportedOperandKindError
              /\ _registers = before

\* X1 holds 2^64 - 1 and a write of 1 to an Immediate operand failed.
OperandsFailClosedWitness ==
    /\ WroteOperand
    /\ lastCall.args.operand.type = ARM64_OP_IMM
    /\ lastCall.args.nbits = None
    /\ lastCall.args.value = One
    /\ lastCall.result = UnsupportedOperandKindError
    /\ _registers["X1"] = MaxOfSize[64]

\* C15: after ret(), PC reads what X30, and LR, read before the call, and
\* every other cell, X30 among them, is unchanged.
RegisterBasedReturn ==
    lastCall.op = "ret" =>
        /\ lastCall.result = Ok
        /\ read(_registers, "PC").value = read(before, "X30").value
        /\ read(_registers, "PC").value = read(before, "LR").value
        /\ \A P \in DOMAIN _registers \ {"PC"} : _registers[P] = before[P]
        /\ DOMAIN _registers = DOMAIN before

\* LR held 0xFFFFFFFF00000001 and PC held 0 before ret().
RegisterBasedReturnWitness ==
    /\ lastCall.op = "ret"
    /\ before["X30"] = HighOnesLowOne
    /\ before["PC"] = Zero
    /\ _registers["PC"] = HighOnesLowOne
    /\ _registers["X30"] = HighOnesLowOne

\* C16: write_result(v) of either ABI with 0 <= v < 2^64 makes X0 read v
\* and changes no other cell; syscall_number() returns what X8 reads and
\* changes no cell.
ResultAndSyscallNumber ==
    /\ (lastCall.op = "write_result" /\ InRange(lastCall.args.result, 64))
           => /\ lastCall.result = Ok
              /\ read(_registers, "X0").value = lastCall.args.result
              /\ \A P \in DOMAIN _registers \ {"X0"} :
                     _registers[P] = before[P]
    /\ lastCall.op = "syscall_number"
           => /\ lastCall.ret = read(before, "X8").value
              /\ _registers = before

\* X8 holds 64 and the syscall ABI stored 0xFFFFFFFF00000001 as the result.
ResultAndSyscallNumberWitness ==
    /\ lastCall.op = "write_result"
    /\ lastCall.args.abi = "syscall"
    /\ lastCall.args.result = HighOnesLowOne
    /\ _registers["X0"] = HighOnesLowOne
    /\ _registers["X8"] = Small(64)

\* The value the source operand of the last MOV had before the instruction.
SrcBefore ==
    IF lastCall.args.src.type = ARM64_OP_REG
    THEN read(before, lastCall.args.src.reg).value
    ELSE lastCall.args.src.imm

\* C18: after MOV(dest, src), with dest a Register operand and src a
\* Register or Immediate operand, dest reads the value src had before the
\* instruction, the cell of dest's parent holds exactly that value, and
\* every other cell is unchanged.
MovReadThenWrite ==
    lastCall.op = "MOV" =>
        LET dest == lastCall.args.dest.reg
        IN  /\ read(_registers, dest).value = SrcBefore
            /\ _registers[ParentOf(dest)] = SrcBefore
            /\ \A P \in DOMAIN _registers \ {ParentOf(dest)} :
                   _registers[P] = before[P]

InitialFlags == [C |-> 0, V |-> 0, N |-> 0, Z |-> 0, GE |-> 0]

=============================================================================
